---- MODULE Spec2Model ----
(***************************************************************************)
(* A model of os-find (src/main.cpp): the command line is turned into a    *)
(* configuration, the directory tree below argv[1] is walked depth first,  *)
(* every non-directory entry is matched against the configuration and a    *)
(* match is printed or handed to a child process that execve()s the        *)
(* configured program and is waited for.                                   *)
(*                                                                         *)
(* C strings that the program inspects character by character (the values  *)
(* of -inum, -size and -nlinks) are sequences of one-character strings;    *)
(* option names, the -name value and paths are compared as wholes and are  *)
(* TLA+ strings.  A node of the directory tree stands for its full path.   *)
(***************************************************************************)
EXTENDS Integers, Sequences, FiniteSets, TLC

\* ------------------------------------------------------------------ bounds
\* longest -size value drawn in SpecParse
MaxLen == 3
\* largest st_size drawn when a parsed -size filter is applied in SpecParse
MaxSize == 3
\* cap on the number of nested recursive_walk calls
MaxDepth == 3

\* --------------------------------------------------------- program constants
EXIT_SUCCESS == 0
EXIT_FAILURE == 1

NULL == "NULL"
NUL == "NUL"

\* ------------------------------------------------------------ the file system
\* root/{a, d1/{b}, d2/{c}} ; every directory also lists "." and ".."
Dirs == {"root", "d1", "d2"}
Files == {"a", "b", "c"}
Parent == [n \in (Dirs \cup Files) \ {"root"} |->
             CASE n = "a" -> "root" [] n = "d1" -> "root" [] n = "d2" -> "root"
               [] n = "b" -> "d1" [] n = "c" -> "d2"]
DotEntries == {".", ".."}
Entries(d) == DotEntries \cup {n \in DOMAIN Parent : Parent[n] = d}
\* struct dirent: d_type, d_name, d_ino
IsDir(e) == e \in DotEntries \cup Dirs
d_name(e) == CASE e = "a" -> "x" [] e = "b" -> "x" [] e = "c" -> "y" [] OTHER -> e
d_ino(e) == CASE e = "a" -> 1 [] e = "b" -> 2 [] e = "c" -> 3 [] OTHER -> 9
\* struct stat: st_size, st_nlink
st_size(e) == CASE e = "a" -> 1 [] e = "b" -> 2 [] OTHER -> 0
st_nlink(e) == CASE e = "b" -> 2 [] OTHER -> 1

VARIABLES
  argv,        \* the command line, argv[1] of the model is argv[0] of the program
  unreadable,  \* the directories opendir() fails on
  broken,      \* the entries stat() fails on (a dangling symlink, a removed file)
  config,      \* the configuration object, its members as declared until constructed
  pc,          \* main: "start", "walk", "exit"
  exitStatus,  \* the exit status of the process, -1 while it runs
  stack,       \* the active recursive_walk calls, innermost last
  waiting,     \* the child the parent is blocked on in waitpid(), or NULL
  child,       \* per matched path, the state of the child forked for it
  reaped,      \* the children whose termination a waitpid() returned
  dispatched,  \* per path, how many times it was handed to process()
  out,         \* per path, how many lines of stdout name it
  opens,       \* per directory, how many "Cannot open" lines were written
  stats,       \* per path, how many times stat() was called on it
  errs,        \* the kinds of operational error reported so far
  seen,        \* the entries other than "." and ".." that readdir() has yielded
  probe        \* SpecParse: the last application of the size filter

vars == <<argv, unreadable, broken, config, pc, exitStatus, stack, waiting,
          child, reaped, dispatched, out, opens, stats, errs, seen, probe>>

\* ------------------------------------------------------------- C strings
Digits == {"0", "1", "2", "3", "4", "5", "6", "7", "8", "9"}
DigitVal(c) == CASE c = "0" -> 0 [] c = "1" -> 1 [] c = "2" -> 2 [] c = "3" -> 3
                 [] c = "4" -> 4 [] c = "5" -> 5 [] c = "6" -> 6 [] c = "7" -> 7
                 [] c = "8" -> 8 [] c = "9" -> 9
isdigit(c) == c \in Digits
isspace(c) == c = " "
\* value[i], 0-based; the terminating NUL past the end
At(s, i) == IF i < Len(s) THEN s[i + 1] ELSE NUL
\* value + pos
Tail0(s, pos) == SubSeq(s, pos + 1, Len(s))

RECURSIVE SkipSpace(_, _)
SkipSpace(s, i) == IF isspace(At(s, i)) THEN SkipSpace(s, i + 1) ELSE i
RECURSIVE DigitRun(_, _)
DigitRun(s, i) == IF isdigit(At(s, i)) THEN DigitRun(s, i + 1) ELSE i
RECURSIVE Decimal(_, _, _)
Decimal(s, i, k) == IF i >= k THEN 0
                    ELSE Decimal(s, i, k - 1) * 10 + DigitVal(At(s, k - 1))

\* std::stoull(value): leading white space is skipped, one sign is accepted,
\* the longest run of digits is converted and whatever follows is ignored; no
\* digit at all is std::invalid_argument.  A '-' negates in unsigned
\* arithmetic: the result 2^64 - n is written -n here, which is also its value
\* once stored in the signed off_t.  The values drawn are far shorter than the
\* 20 digits std::out_of_range needs.
stoull(s) ==
  LET i == SkipSpace(s, 0)
      j == IF At(s, i) \in {"+", "-"} THEN i + 1 ELSE i
      k == DigitRun(s, j)
      n == Decimal(s, j, k)
  IN IF k = j THEN [ok |-> FALSE, val |-> 0]
     ELSE [ok |-> TRUE, val |-> IF At(s, i) = "-" THEN 0 - n ELSE n]

\* parse_num: the std::logic_error of stoull becomes std::invalid_argument
parse_num(value) ==
  LET r == stoull(value)
  IN [thrown |-> ~r.ok, val |-> r.val]

\* ------------------------------------------------------------ configuration
\* enum class size_type; OTHER is any value of the underlying char that is no
\* enumerator, which an uninitialized size_type may hold
SizeTypes == {"EQUAL", "GREATER", "LESS"}
Indeterminate == SizeTypes \cup {"OTHER"}

Unset == [is_set |-> FALSE]
Set(v) == [is_set |-> TRUE, value |-> v]

\* configuration::get_size.  `type` is declared without an initializer and is
\* assigned only for '+' and '-': for '=' and for a leading digit the value
\* returned is the uninitialized one, `garbage`.
get_size(value, garbage) ==
  LET c0 == At(value, 0)
      signed == ~isdigit(c0)
      type == IF signed /\ c0 = "+" THEN "GREATER"
              ELSE IF signed /\ c0 = "-" THEN "LESS"
              ELSE garbage
      pos == IF signed THEN 1 ELSE 0
      n == parse_num(Tail0(value, pos))
  IN IF signed /\ c0 \notin {"+", "-", "="} THEN [thrown |-> TRUE]
     ELSE IF Len(Tail0(value, pos)) = 0 \/ At(value, pos) = "-" THEN [thrown |-> TRUE]
     ELSE IF n.thrown THEN [thrown |-> TRUE]
     ELSE [thrown |-> FALSE, val |-> n.val, type |-> type]

\* the members of a configuration as declared
DefaultConfig == [thrown |-> FALSE, help |-> FALSE, inode |-> Unset, name |-> NULL,
                  size |-> Unset, nlinks |-> Unset, executable |-> NULL]
Thrown == [DefaultConfig EXCEPT !.thrown = TRUE]

\* the option loop of configuration::configuration, from C index i
RECURSIVE scan(_, _, _, _)
scan(av, i, cfg, garbage) ==
  LET argc == Len(av)
      option == av[i + 1]
      value == av[i + 2]
  IN IF i >= argc THEN cfg
     ELSE IF option = "-help" THEN [cfg EXCEPT !.help = TRUE]
     ELSE IF i + 1 = argc THEN Thrown
     ELSE IF option = "-inum" THEN
            IF parse_num(value).thrown THEN Thrown
            ELSE scan(av, i + 2, [cfg EXCEPT !.inode = Set(parse_num(value).val)], garbage)
     ELSE IF option = "-name" THEN
            scan(av, i + 2, [cfg EXCEPT !.name = value], garbage)
     ELSE IF option = "-size" THEN
            IF get_size(value, garbage).thrown THEN Thrown
            ELSE scan(av, i + 2,
                      [cfg EXCEPT !.size = Set([val |-> get_size(value, garbage).val,
                                                type |-> get_size(value, garbage).type])],
                      garbage)
     ELSE IF option = "-nlinks" THEN
            IF parse_num(value).thrown THEN Thrown
            ELSE scan(av, i + 2, [cfg EXCEPT !.nlinks = Set(parse_num(value).val)], garbage)
     ELSE IF option = "-exec" THEN
            scan(av, i + 2, [cfg EXCEPT !.executable = value], garbage)
     ELSE Thrown

\* configuration::configuration(argc, argv)
configuration(av, garbage) ==
  IF av[2] = "-help" THEN [DefaultConfig EXCEPT !.help = TRUE]
  ELSE scan(av, 2, DefaultConfig, garbage)

\* the size switch of configuration::matches: TRUE when the entry is kept
size_passes(size, sz) ==
  CASE size.type = "EQUAL" -> sz = size.val
    [] size.type = "LESS" -> sz < size.val
    [] size.type = "GREATER" -> sz > size.val
    [] OTHER -> TRUE

\* stat(path, &st) == -1
stat_fails(e) == e \in broken

\* configuration::matches reaches its stat() call: the inode and name checks passed
reaches_stat(cfg, e) ==
  /\ ~(cfg.inode.is_set /\ cfg.inode.value # d_ino(e))
  /\ ~(cfg.name # NULL /\ d_name(e) # cfg.name)

\* configuration::matches(file, path)
matches(cfg, e) ==
  /\ reaches_stat(cfg, e)
  /\ ~stat_fails(e)
  /\ (cfg.size.is_set => size_passes(cfg.size.value, st_size(e)))
  /\ (cfg.nlinks.is_set => st_nlink(e) = cfg.nlinks.value)

\* ------------------------------------------------------------ command lines
\* the values of -size tried in the walk
SizeValues == {<<"1">>, <<"+", "1">>, <<"-", "1">>}
Opt(name, values) == {<<>>} \cup {<<name, v>> : v \in values}
WalkArgv ==
  {<<"os-find", "root">> \o i \o n \o s \o l \o x :
     i \in Opt("-inum", {<<"1">>}), n \in Opt("-name", {"x"}),
     s \in Opt("-size", SizeValues), l \in Opt("-nlinks", {<<"1">>}),
     x \in Opt("-exec", {"prog"})}
OtherArgv ==
  {<<"os-find">>, <<"os-find", "-help">>, <<"os-find", "root", "-help">>,
   <<"os-find", "root", "-name">>, <<"os-find", "root", "-depth", "x">>,
   <<"os-find", "root", "-inum", <<"x">>>>, <<"os-find", "root", "-size", <<"1", "x">>>>,
   <<"os-find", "root", "-size", <<>>>>, <<"os-find", "root", "-nlinks", <<"-", "1">>>>}
\* the file systems tried: which directories cannot be opened, which entries
\* cannot be stat()ed
FsUnreadable == {{}, {"d1"}, {"root"}}
FsBroken == {{}, {"c"}}

\* a process: st is "none" (never forked), "forked" (in the child branch of
\* process(), before execve), "running" (the image was replaced), "exited" or
\* "returned" (back in the walk); status is the exit status, -1 while there is
\* none; execve_failed records that execve returned -1 in it
NoChild == [st |-> "none", status |-> -1, execve_failed |-> FALSE]

\* no size filter applied yet
NoProbe == [st_size |-> -1, kept |-> FALSE]

Idle ==
  /\ config = DefaultConfig /\ pc = "start" /\ exitStatus = -1
  /\ stack = <<>> /\ waiting = NULL
  /\ child = [f \in Files |-> NoChild] /\ reaped = {}
  /\ dispatched = [f \in Files |-> 0] /\ out = [f \in Files |-> 0]
  /\ opens = [d \in Dirs |-> 0] /\ stats = [f \in Files |-> 0]
  /\ errs = {} /\ seen = {} /\ probe = NoProbe

Init ==
  /\ argv \in WalkArgv \cup OtherArgv
  /\ unreadable \in FsUnreadable
  /\ broken \in FsBroken
  /\ Idle

\* ------------------------------------------------------------------- main
Call(path) == [dir |-> path, state |-> "opendir", remaining |-> {}]
Top == stack[Len(stack)]
Pop(s) == SubSeq(s, 1, Len(s) - 1)
SetTop(f) == [stack EXCEPT ![Len(stack)] = f]

\* main up to the call of recursive_walk(argv[1]): usage on an empty command
\* line, the configuration (std::invalid_argument is caught: EXIT_FAILURE),
\* -help
MainStart ==
  /\ pc = "start"
  /\ \E garbage \in Indeterminate :
       LET cfg == IF Len(argv) < 2 THEN Thrown ELSE configuration(argv, garbage)
       IN /\ config' = cfg
          /\ IF cfg.thrown THEN /\ pc' = "exit" /\ exitStatus' = EXIT_FAILURE
                                /\ stack' = stack
             ELSE IF cfg.help THEN /\ pc' = "exit" /\ exitStatus' = EXIT_SUCCESS
                                   /\ stack' = stack
             ELSE /\ pc' = "walk" /\ exitStatus' = exitStatus
                  /\ stack' = <<Call(argv[2])>>
  /\ UNCHANGED <<argv, unreadable, broken, waiting, child, reaped, dispatched,
                 out, opens, stats, errs, seen, probe>>

\* MainReturn with the errors of the walk turned into the exit status
MainReturnReportsErrors ==
  /\ pc = "walk" /\ stack = <<>> /\ waiting = NULL
  /\ pc' = "exit"
  /\ exitStatus' = IF errs = {} THEN EXIT_SUCCESS ELSE EXIT_FAILURE
  /\ UNCHANGED <<argv, unreadable, broken, config, stack, waiting, child, reaped,
                 dispatched, out, opens, stats, errs, seen, probe>>

\* main after recursive_walk returned: control reaches the end of main
MainReturn ==
  /\ pc = "walk" /\ stack = <<>> /\ waiting = NULL
  /\ pc' = "exit" /\ exitStatus' = EXIT_SUCCESS
  /\ UNCHANGED <<argv, unreadable, broken, config, stack, waiting, child, reaped,
                 dispatched, out, opens, stats, errs, seen, probe>>

\* ------------------------------------------------------------------ walker
Walking == pc = "walk" /\ stack # <<>> /\ waiting = NULL

\* OpendirFailed with the failure unwinding every enclosing call
OpendirFailedAborts ==
  /\ opens' = [opens EXCEPT ![Top.dir] = @ + 1]
  /\ errs' = errs \cup {"open"}
  /\ stack' = <<>>

\* opendir returned nullptr: one "Cannot open" line, return to the caller
OpendirFailed ==
  /\ opens' = [opens EXCEPT ![Top.dir] = @ + 1]
  /\ errs' = errs \cup {"open"}
  /\ stack' = Pop(stack)

\* recursive_walk, its opendir
Opendir ==
  /\ Walking /\ Top.state = "opendir"
  /\ IF Top.dir \in unreadable THEN OpendirFailed
     ELSE /\ stack' = SetTop([Top EXCEPT !.state = "loop", !.remaining = Entries(Top.dir)])
          /\ UNCHANGED <<opens, errs>>
  /\ UNCHANGED <<argv, unreadable, broken, config, pc, exitStatus, waiting, child,
                 reaped, dispatched, out, stats, seen, probe>>

\* skipped with ".." forgotten
skipped_dot_only(e) == e = "."

\* the entries of d_type DT_DIR the loop passes over
skipped(e) == e = "." \/ e = ".."
\* the directory path + '/' + d_name names
Target(d, e) == IF e = "." THEN d
                ELSE IF e = ".." THEN (IF d = "root" THEN d ELSE Parent[d])
                ELSE e

\* process(config, name, envp): print, or fork a child and wait for it
process(e) ==
  /\ dispatched' = [dispatched EXCEPT ![e] = @ + 1]
  /\ IF config.executable = NULL
     THEN /\ out' = [out EXCEPT ![e] = @ + 1]
          /\ UNCHANGED <<child, waiting, errs>>
     ELSE /\ out' = out
          /\ \/ /\ errs' = errs \cup {"fork"}
                /\ UNCHANGED <<child, waiting>>
             \/ /\ child' = [child EXCEPT ![e] = [NoChild EXCEPT !.st = "forked"]]
                /\ waiting' = e
                /\ errs' = errs

\* one turn of the readdir loop on a directory entry
ReaddirDir ==
  /\ Walking /\ Top.state = "loop"
  /\ \E e \in Top.remaining :
       /\ IsDir(e)
       /\ IF skipped(e)
          THEN /\ stack' = SetTop([Top EXCEPT !.remaining = @ \ {e}])
               /\ seen' = seen
          ELSE /\ Len(stack) < MaxDepth
               /\ stack' = Append(SetTop([Top EXCEPT !.remaining = @ \ {e}]),
                                   Call(Target(Top.dir, e)))
               /\ seen' = seen \cup {Target(Top.dir, e)}
  /\ UNCHANGED <<argv, unreadable, broken, config, pc, exitStatus, waiting, child,
                 reaped, dispatched, out, opens, stats, errs, probe>>

\* one turn of the readdir loop on an entry that is no directory
ReaddirFile ==
  /\ Walking /\ Top.state = "loop"
  /\ \E e \in Top.remaining :
       /\ ~IsDir(e)
       /\ stack' = SetTop([Top EXCEPT !.remaining = @ \ {e}])
       /\ seen' = seen \cup {e}
       /\ stats' = IF reaches_stat(config, e) THEN [stats EXCEPT ![e] = @ + 1] ELSE stats
       /\ IF matches(config, e) THEN process(e)
          ELSE /\ errs' = IF reaches_stat(config, e) /\ stat_fails(e)
                          THEN errs \cup {"stat"} ELSE errs
               /\ UNCHANGED <<dispatched, out, child, waiting>>
  /\ UNCHANGED <<argv, unreadable, broken, config, pc, exitStatus, reaped, opens, probe>>

\* readdir returned nullptr: closedir, which may fail, and return
Closedir ==
  /\ Walking /\ Top.state = "loop" /\ Top.remaining = {}
  /\ stack' = Pop(stack)
  /\ \/ errs' = errs
     \/ errs' = errs \cup {"close"}
  /\ UNCHANGED <<argv, unreadable, broken, config, pc, exitStatus, waiting, child,
                 reaped, dispatched, out, opens, stats, seen, probe>>

\* ------------------------------------------------------------ parent and child
Alive(f) == child[f].st \in {"forked", "running", "returned"}
Terminated(f) == child[f].st = "exited"

\* waitpid(pid, &status, 0) returns pid: the child has terminated
WaitpidReturns ==
  /\ pc = "walk" /\ waiting # NULL
  /\ Terminated(waiting)
  /\ reaped' = reaped \cup {waiting}
  /\ waiting' = NULL
  /\ UNCHANGED <<argv, unreadable, broken, config, pc, exitStatus, stack, child,
                 dispatched, out, opens, stats, errs, seen, probe>>

\* waitpid returns -1 (EINTR, ECHILD): show_error, and process() returns
WaitpidFails ==
  /\ pc = "walk" /\ waiting # NULL
  /\ errs' = errs \cup {"wait"}
  /\ waiting' = NULL
  /\ UNCHANGED <<argv, unreadable, broken, config, pc, exitStatus, stack, child,
                 reaped, dispatched, out, opens, stats, seen, probe>>

\* ExecveFailed without the exit: the child leaves process() and walks on
ExecveFailedReturns(f) ==
  child' = [child EXCEPT ![f] = [st |-> "returned", status |-> -1,
                                 execve_failed |-> TRUE]]

\* the child after execve returned -1: show_error, exit(EXIT_FAILURE)
ExecveFailed(f) ==
  child' = [child EXCEPT ![f] = [st |-> "exited", status |-> EXIT_FAILURE,
                                 execve_failed |-> TRUE]]

\* the child: execve replaces the image, or fails
ChildExecve ==
  /\ \E f \in Files :
       /\ child[f].st = "forked"
       /\ \/ child' = [child EXCEPT ![f].st = "running"]
          \/ ExecveFailed(f)
  /\ UNCHANGED <<argv, unreadable, broken, config, pc, exitStatus, stack, waiting,
                 reaped, dispatched, out, opens, stats, errs, seen, probe>>

\* the executed program terminates, with a status of its own
ChildFinishes ==
  /\ \E f \in Files, s \in {EXIT_SUCCESS, EXIT_FAILURE} :
       /\ child[f].st = "running"
       /\ child' = [child EXCEPT ![f].st = "exited", ![f].status = s]
  /\ UNCHANGED <<argv, unreadable, broken, config, pc, exitStatus, stack, waiting,
                 reaped, dispatched, out, opens, stats, errs, seen, probe>>

WalkerStep == MainStart \/ Opendir \/ ReaddirDir \/ ReaddirFile \/ Closedir
                \/ WaitpidReturns \/ WaitpidFails \/ MainReturn
ChildStep == ChildExecve \/ ChildFinishes

Next == WalkerStep \/ ChildStep

Spec == Init /\ [][Next]_vars

\* ------------------------------------------------- get_size on its own
\* the characters -size values are drawn from
SizeChars == {"+", "-", "=", "1", "2", "x", " "}
RECURSIVE Strings(_)
Strings(n) == IF n = 0 THEN {<<>>}
              ELSE Strings(n - 1) \cup
                   {Append(t, c) : t \in {u \in Strings(n - 1) : Len(u) = n - 1},
                                   c \in SizeChars}

InitParse ==
  /\ argv \in {<<"os-find", "root", "-size", v>> : v \in Strings(MaxLen)}
  /\ unreadable = {}
  /\ broken = {}
  /\ Idle

\* the size filter of configuration::matches applied to a file of size sz
ApplySize ==
  /\ pc = "walk" /\ config.size.is_set
  /\ \E sz \in 0..MaxSize :
       probe' = [st_size |-> sz, kept |-> size_passes(config.size.value, sz)]
  /\ UNCHANGED <<argv, unreadable, broken, config, pc, exitStatus, stack, waiting,
                 child, reaped, dispatched, out, opens, stats, errs, seen>>

NextParse == MainStart \/ ApplySize

SpecParse == InitParse /\ [][NextParse]_vars

\* ------------------------------------------------------------ scheduling
\* the walks whose termination is checked under fairness: the name filter and
\* -exec, on every file system
InitFair ==
  /\ argv \in {<<"os-find", "root">> \o n \o x :
                 n \in Opt("-name", {"x"}), x \in Opt("-exec", {"prog"})}
  /\ unreadable \in FsUnreadable
  /\ broken \in FsBroken
  /\ Idle

\* the parent runs on whenever it can take a step, and so does every child:
\* the system calls of the walk return, and a spawned program terminates
FairSpec == InitFair /\ [][Next]_vars /\ WF_vars(WalkerStep) /\ WF_vars(ChildStep)

\* ------------------------------------------------------ what the claims say
\* the options of a command line sit at the odd places from the third on
OptAt(name) == {i \in 3..Len(argv) : i % 2 = 1 /\ i < Len(argv) /\ argv[i] = name}
HasOpt(name) == OptAt(name) # {}
OptVal(name) == argv[(CHOOSE i \in OptAt(name) : TRUE) + 1]

\* the -size grammar: an optional sign, then one or more digits, nothing else
Body(v) == IF Len(v) > 0 /\ v[1] \in {"=", "+", "-"} THEN Tail(v) ELSE v
WellFormed(v) == Len(Body(v)) > 0 /\ \A i \in 1..Len(Body(v)) : Body(v)[i] \in Digits
Number(v) == Decimal(Body(v), 0, Len(Body(v)))
SizeWanted(v, sz) == IF v[1] = "+" THEN sz > Number(v)
                     ELSE IF v[1] = "-" THEN sz < Number(v)
                     ELSE sz = Number(v)

\* an unsigned decimal number
Unsigned(v) == Len(v) > 0 /\ \A i \in 1..Len(v) : v[i] \in Digits
\* every numeric value of the command line is written as its option asks
ArgsWellFormed ==
  /\ HasOpt("-inum") => Unsigned(OptVal("-inum"))
  /\ HasOpt("-size") => WellFormed(OptVal("-size"))
  /\ HasOpt("-nlinks") => Unsigned(OptVal("-nlinks"))

\* the entry satisfies every predicate the command line configures
Wanted(f) ==
  /\ HasOpt("-inum") => d_ino(f) = Number(OptVal("-inum"))
  /\ HasOpt("-name") => d_name(f) = OptVal("-name")
  /\ HasOpt("-size") => SizeWanted(OptVal("-size"), st_size(f))
  /\ HasOpt("-nlinks") => st_nlink(f) = Number(OptVal("-nlinks"))

\* every directory from the root down to the node's parent can be opened
RECURSIVE Reachable(_)
Reachable(n) == IF n = "root" THEN n \notin unreadable
                ELSE Parent[n] \notin unreadable /\ Reachable(Parent[n])

\* the walk was started and main has returned
Walked == pc = "exit" /\ ~config.thrown /\ ~config.help
AliveChildren == {f \in Files : Alive(f)}

\* C1: after the walk, every reachable non-directory entry that satisfies every
\* configured predicate was handed to process() exactly once, and no other
\* entry was.  (An entry stat() fails on is left out when -size or -nlinks is
\* configured: it has no size or link count to satisfy them with.)
C1_DispatchedExactlyTheMatches ==
  (Walked /\ ArgsWellFormed) =>
    \A f \in Files :
      \/ f \in broken /\ (HasOpt("-size") \/ HasOpt("-nlinks"))
      \/ dispatched[f] = IF Reachable(f) /\ Wanted(f) THEN 1 ELSE 0

\* C2: with no inode, name, size or nlinks predicate, every non-directory
\* entry of the tree is dispatched.
C2_NoPredicateMatchesAll ==
  (Walked /\ ~config.inode.is_set /\ config.name = NULL /\ ~config.size.is_set
     /\ ~config.nlinks.is_set)
    => \A f \in Files : Reachable(f) => dispatched[f] = 1

\* C3: from the command-line value to the decision: -size N and -size =N keep
\* a file iff its size is N, -size +N iff it is greater, -size -N iff it is
\* less.
C3_SizeSemantics ==
  (probe # NoProbe /\ WellFormed(argv[4]))
    => (probe.kept <=> SizeWanted(argv[4], probe.st_size))

\* C4: at most one child is alive, and the walker reads no further entry
\* while a child it spawned is alive, whatever fork and waitpid return.
C4_OneChildAtATime ==
  /\ Cardinality(AliveChildren) <= 1
  /\ waiting = NULL => AliveChildren = {}

\* C5: a subdirectory that cannot be opened gets exactly one diagnostic line,
\* and every matching entry of its sibling directories and of the rest of its
\* parent is still dispatched, exactly once.
C5_OpendirFailureContained ==
  (Walked /\ "root" \notin unreadable) =>
    /\ \A d \in Dirs : opens[d] = IF d \in unreadable THEN 1 ELSE 0
    /\ \A n \in DOMAIN Parent : Reachable(n) => n \in seen
    /\ \A f \in Files : (Reachable(f) /\ matches(config, f)) => dispatched[f] = 1
C5_Witness ==
  /\ Walked /\ unreadable = {"d1"} /\ opens["d1"] = 1
  /\ dispatched["a"] = 1 /\ dispatched["c"] = 1 /\ dispatched["b"] = 0

\* C6: a child whose execve failed has terminated with a non-zero status and
\* never came back into the walk; a waitpid that returns the child's pid does
\* so only once the child has terminated, and the parent then goes on to the
\* end of the walk.
C6_ExecveFailureEndsChild ==
  /\ \A f \in Files :
       /\ child[f].st # "returned"
       /\ child[f].execve_failed => child[f].st = "exited" /\ child[f].status # EXIT_SUCCESS
       /\ f \in reaped => child[f].st = "exited"
  /\ (Walked /\ "root" \notin unreadable) => \A n \in DOMAIN Parent : Reachable(n) => n \in seen
C6_Witness ==
  /\ Walked
  /\ \E f \in Files : child[f].execve_failed /\ f \in reaped
  /\ \E f \in Files : child[f].execve_failed /\ \E g \in Files \ {f} : dispatched[g] = 1

\* C7: a -size value is accepted only if it is an optional sign followed by
\* one or more digits and nothing else; every other value ends the run with a
\* failure status before any traversal.
C7_SizeGrammar ==
  pc # "start" =>
    /\ config.thrown <=> ~WellFormed(argv[4])
    /\ config.thrown => exitStatus = EXIT_FAILURE /\ stack = <<>>

\* C8 as claimed: with a valid configuration the exit status is success
\* whatever fails during the walk, except that it is not when the root
\* directory cannot be opened.
C8_ExitFailsWithoutRoot ==
  Walked => (exitStatus = EXIT_SUCCESS <=> "root" \notin unreadable)
\* C8 as amended: with a valid configuration the exit status is success
\* whatever fails during the walk, the root directory's opendir included.
C8_ExitSuccess ==
  (pc = "exit" /\ ~config.thrown) => exitStatus = EXIT_SUCCESS
C8_Witness ==
  /\ Walked /\ "root" \in unreadable /\ opens["root"] = 1 /\ "open" \in errs
  /\ exitStatus = EXIT_SUCCESS

\* C9: once started the walk returns to main, whatever opendir, stat, fork,
\* waitpid and closedir do, and by then every entry that can be reached has
\* been visited.
C9_WalkTerminates ==
  (pc = "walk") ~>
     (pc = "exit" /\ stack = <<>>
        /\ ("root" \notin unreadable => \A n \in DOMAIN Parent : Reachable(n) => n \in seen))
C9_Witness ==
  /\ Walked /\ {"open", "stat", "wait", "close"} \subseteq errs
  /\ seen = {"a", "d1", "d2", "c"}

\* C10: stat() is called on an entry only if a size or an nlinks predicate is
\* configured, and "Cannot check file" is reported only then.
C10_StatOnlyWhenNeeded ==
  pc # "start" =>
    \/ config.size.is_set \/ config.nlinks.is_set
    \/ /\ \A f \in Files : stats[f] = 0
       /\ "stat" \notin errs

====
